---- MODULE Spec2Model ----
(***************************************************************************)
(* KLog: the field layout / text wrapping engine (klog/custom_formatter.py)*)
(* and the cascading configuration resolver (klog/defaults.py).            *)
(*                                                                         *)
(* Text is a sequence of one-character strings.  The alphabet holds an     *)
(* ordinary letter, the space, a wide character "W" (two display columns,  *)
(* like the emoji of examples/example.py), a zero-width combining          *)
(* character "z" and a control character "c" (no display width: wcswidth   *)
(* answers -1 for a string that holds one).                                *)
(***************************************************************************)
EXTENDS Integers, Sequences, FiniteSets, TLC

\* ---------------------------------------------------------------- bounds
MaxTextLen == 6        \* longest text handed to _wrap_text
MaxWidth == 3          \* largest max_width handed to _wrap_text
MaxMsgLen == 3         \* longest message handed to format_line
MaxCalls == 2          \* most log calls one thread makes, one call after the other
MaxThreadCalls == 1    \* most log calls one thread makes next to the other thread

\* ------------------------------------------------------------ characters
Chars == {"a", " ", "W", "z", "c"}

Whitespace == {" "}

\* wcwidth.wcwidth: columns of one character (-1: not printable)
WcWidth(ch) ==
  CASE ch = "W" -> 2
    [] ch = "z" -> 0
    [] ch = "c" -> 0 - 1
    [] OTHER -> 1

RECURSIVE SumWidth(_)
SumWidth(s) == IF s = <<>> THEN 0 ELSE WcWidth(Head(s)) + SumWidth(Tail(s))

\* wcwidth.wcswidth: -1 as soon as one character is not printable
wcswidth(s) ==
  IF \E k \in 1..Len(s) : WcWidth(s[k]) < 0 THEN 0 - 1 ELSE SumWidth(s)

Min(x, y) == IF x <= y THEN x ELSE y
Max(x, y) == IF x >= y THEN x ELSE y

\* Python slice s[i:j] with 0 <= i <= j (0-based, j clipped to len(s))
Slice(s, i, j) == SubSeq(s, i + 1, Min(j, Len(s)))

\* [s[i:i+n] for i in range(0, len(s), n)], n > 0
CharChunks(s, n) ==
  [k \in 1..((Len(s) + n - 1) \div n) |-> Slice(s, (k - 1) * n, k * n)]

\* str.split(): the maximal runs of non-whitespace characters, in order
RECURSIVE SplitFrom(_, _, _)
SplitFrom(s, k, word) ==
  IF k > Len(s) THEN (IF word = <<>> THEN <<>> ELSE <<word>>)
  ELSE IF s[k] \in Whitespace
       THEN (IF word = <<>> THEN <<>> ELSE <<word>>) \o SplitFrom(s, k + 1, <<>>)
       ELSE SplitFrom(s, k + 1, Append(word, s[k]))

Split(s) == SplitFrom(s, 1, <<>>)

RECURSIVE Concat(_)
Concat(ls) == IF ls = <<>> THEN <<>> ELSE Head(ls) \o Concat(Tail(ls))

\* ------------------------------------------------------------ _wrap_text
\* The loop state of the word-wrapping branch.  current_line is kept as the
\* joined string; the code's list of pieces is non-empty exactly when it is.
WrapState(ls, cl, cw) == [lines |-> ls, current_line |-> cl, current_width |-> cw]

\* lines 57-63: the word fits on the current line
WordFits(st, word, mw) ==
  st.current_width + (IF st.current_line # <<>> THEN 1 ELSE 0) + wcswidth(word) <= mw

AppendWord(st, word) ==
  IF st.current_line # <<>>
  THEN WrapState(st.lines, st.current_line \o <<" ">> \o word,
                 st.current_width + 1 + wcswidth(word))
  ELSE WrapState(st.lines, word, st.current_width + wcswidth(word))

\* the slip of resetting the current line without appending it to lines
CloseLineDrops(st) == WrapState(st.lines, <<>>, 0)

\* lines 65-69: complete the current line
CloseLine(st) ==
  IF st.current_line # <<>>
  THEN WrapState(Append(st.lines, st.current_line), <<>>, 0)
  ELSE st

\* the slip `lines.extend(wrapped_word)` followed by an empty current line
StartLineNoSeed(st, word, mw) ==
  IF wcswidth(word) > mw
  THEN WrapState(st.lines \o CharChunks(word, mw), <<>>, 0)
  ELSE WrapState(st.lines, word, wcswidth(word))

\* lines 71-81: start the next line with the word, or with its last chunk
StartLine(st, word, mw) ==
  IF wcswidth(word) > mw
  THEN LET wrapped_word == CharChunks(word, mw)
           n == Len(wrapped_word)
       IN  WrapState(st.lines \o SubSeq(wrapped_word, 1, n - 1),
                     wrapped_word[n], wcswidth(wrapped_word[n]))
  ELSE WrapState(st.lines, word, wcswidth(word))

\* one iteration of `for word in words` (lines 54-81)
WordStep(st, word, mw) ==
  IF WordFits(st, word, mw)
  THEN AppendWord(st, word)
  ELSE StartLine(CloseLine(st), word, mw)

\* lines 83-86
FinishWrap(st) ==
  IF st.current_line # <<>> THEN Append(st.lines, st.current_line) ELSE st.lines

RECURSIVE WrapWords(_, _, _)
WrapWords(st, ws, mw) ==
  IF ws = <<>> THEN FinishWrap(st)
  ELSE WrapWords(WordStep(st, Head(ws), mw), Tail(ws), mw)

\* _wrap_text(text, max_width, word_wrap) as a function
WrapText(txt, mw, ww) ==
  IF txt = <<>> \/ mw <= 0 THEN <<>>
  ELSE IF ~ww THEN CharChunks(txt, mw)
  ELSE WrapWords(WrapState(<<>>, <<>>, 0), Split(txt), mw)


\* =========================================================== defaults.py
\* An Optional value is a sequence of at most one element: None is <<>>.
None == <<>>
Some(v) == <<v>>

\* the empty dict {}
EmptyDict == [k \in {} |-> k]

FieldNames == {"message", "padding", "reason", "status"}

\* FieldConfig() with the dataclass defaults.  A style is kept as the list of
\* names its comma-separated string holds.
FieldConfig ==
  [min_width |-> 0, max_width |-> None, leading_char |-> <<>>, closing_char |-> <<>>,
   padding_char |-> <<" ">>, color |-> None, style |-> <<>>,
   wrap |-> TRUE, word_wrap |-> TRUE]

\* LogConfig.level_styles as the dataclass builds it
DefaultLevelStyles ==
  [lv \in {"DEBUG", "INFO", "WARNING", "ERROR", "CRITICAL"} |->
     "status" :>
       [color |-> Some(CASE lv = "DEBUG" -> "blue" [] lv = "INFO" -> "green"
                         [] lv = "WARNING" -> "yellow" [] OTHER -> "red"),
        style |-> IF lv = "CRITICAL" THEN <<"bold", "blink">> ELSE <<"bold">>]]

\* LogConfig() laid out as the dataclass lays it out, with narrower columns
\* (a DefaultsManager is built from any LogConfig its caller passes)
NarrowLogConfig ==
  [total_width |-> 12,
   fields |->
     [message |-> [FieldConfig EXCEPT !.min_width = 2, !.max_width = Some(4)],
      padding |-> [FieldConfig EXCEPT !.min_width = 1, !.padding_char = <<".">>,
                                      !.leading_char = <<" ">>, !.closing_char = <<" ">>],
      reason  |-> [FieldConfig EXCEPT !.max_width = Some(4), !.leading_char = <<"(">>,
                                      !.closing_char = <<")">>, !.wrap = FALSE],
      status  |-> [FieldConfig EXCEPT !.max_width = Some(2), !.wrap = FALSE]],
   level_styles |-> DefaultLevelStyles]

\* a LogConfig whose caller wrote level styles of its own: one names an
\* attribute that is no colour or style, one names a field that does not exist
CustomLogConfig ==
  [NarrowLogConfig EXCEPT
     !.level_styles =
        [lv \in {"INFO", "ERROR"} |->
           IF lv = "INFO"
           THEN ("message" :> [color |-> Some("green"), wrap |-> FALSE])
                @@ ("extra" :> [color |-> Some("red")])
           ELSE ("status" :> [color |-> Some("red"), style |-> <<"bold">>])
                @@ ("reason" :> [color |-> Some("red")])]]

SystemDefaultsSet == {NarrowLogConfig, CustomLogConfig}

\* ---- objects: a heap of LogConfig values, a reference is an index into it
\* the slip of binding the object itself instead of a copy of it
DeepcopyAlias(h, r) == [heap |-> h, ref |-> r]

\* copy.deepcopy(obj): a new object with the same value
Deepcopy(h, r) == [heap |-> Append(h, h[r]), ref |-> Len(h) + 1]

\* the slip of building the field anew from the keys given
PatchAttrsReplace(obj, attrs) == attrs @@ FieldConfig

\* setattr(obj, key, value) for every key of one dict: the keys given are
\* overwritten (or added), the other attributes stay
PatchAttrs(obj, attrs) == attrs @@ obj

\* the slip of taking a field the configuration does not have from the override
PatchFieldsAddsUnknown(fields, fd) ==
  [f \in DOMAIN fields \cup DOMAIN fd |->
     IF f \in DOMAIN fd
     THEN PatchAttrs(IF f \in DOMAIN fields THEN fields[f] ELSE FieldConfig, fd[f])
     ELSE fields[f]]

\* for name, d in dict.items(): if name in fields: for key, value in d.items():
\*   setattr(fields[name], key, value)
PatchFields(fields, fd) ==
  [f \in DOMAIN fields |->
     IF f \in DOMAIN fd THEN PatchAttrs(fields[f], fd[f]) ELSE fields[f]]

\* DefaultsManager._merge_defaults(base, override)
MergeDefaults(h, base, override) ==
  LET result == Deepcopy(h, base)
      h1 == IF "total_width" \in DOMAIN override
            THEN [result.heap EXCEPT ![result.ref].total_width = override.total_width]
            ELSE result.heap
      h2 == IF "fields" \in DOMAIN override
            THEN [h1 EXCEPT ![result.ref].fields = PatchFields(@, override.fields)]
            ELSE h1
  IN  [heap |-> h2, ref |-> result.ref]

\* the slip of building the targeted fields anew from the level style
ApplyLevelStylesReplace(h, config, lvl) ==
  IF lvl # "" /\ lvl \in DOMAIN h[config].level_styles
  THEN [h EXCEPT ![config].fields =
          [f \in DOMAIN @ |->
             IF f \in DOMAIN h[config].level_styles[lvl]
             THEN PatchAttrs(FieldConfig, h[config].level_styles[lvl][f])
             ELSE @[f]]]
  ELSE h

\* get_effective_defaults, lines 53-59: the per-level style step, in place
ApplyLevelStyles(h, config, lvl) ==
  IF lvl # "" /\ lvl \in DOMAIN h[config].level_styles
  THEN [h EXCEPT ![config].fields = PatchFields(@, h[config].level_styles[lvl])]
  ELSE h

\* get_effective_defaults, lines 46-51: copy, then the template config
CopyAndTemplate(h, self, tc) ==
  LET config == Deepcopy(h, self)
  IN  IF DOMAIN tc # {} THEN MergeDefaults(config.heap, config.ref, tc) ELSE config

\* get_effective_defaults, lines 61-65: the per-call overrides
ApplyKwargs(h, config, kw) ==
  IF DOMAIN kw # {} THEN MergeDefaults(h, config, kw) ELSE [heap |-> h, ref |-> config]

\* the slip of applying the level style before the template config
GetEffectiveDefaultsLevelFirst(h, self, tc, lvl, kw) ==
  LET c0 == Deepcopy(h, self)
      h1 == ApplyLevelStyles(c0.heap, c0.ref, lvl)
      c2 == IF DOMAIN tc # {} THEN MergeDefaults(h1, c0.ref, tc)
                              ELSE [heap |-> h1, ref |-> c0.ref]
  IN  ApplyKwargs(c2.heap, c2.ref, kw)

\* DefaultsManager.get_effective_defaults(instance_id, template_name, level,
\* template_config, **kwargs); self is the reference of system_defaults
GetEffectiveDefaults(h, self, tc, lvl, kw) ==
  LET c2 == CopyAndTemplate(h, self, tc)
      h3 == ApplyLevelStyles(c2.heap, c2.ref, lvl)
  IN  ApplyKwargs(h3, c2.ref, kw)

\* ====================================================== text_styles.py
\* An escape sequence is one element of a rendered string.
ResetCode == "ESC[0m"

\* COLOR_CODES.get(name, ''): the colours in use here, '' for any other name
ColorCode(name) ==
  CASE name = "red" -> <<"ESC[31m">>
    [] name = "green" -> <<"ESC[32m">>
    [] name = "yellow" -> <<"ESC[33m">>
    [] name = "blue" -> <<"ESC[34m">>
    [] name = "grey" -> <<"ESC[90m">>
    [] OTHER -> <<>>

\* STYLE_CODES.get(name, '')
StyleCode(name) ==
  CASE name = "bold" -> <<"ESC[1m">>
    [] name = "italic" -> <<"ESC[3m">>
    [] name = "underlined" -> <<"ESC[4m">>
    [] name = "blink" -> <<"ESC[5m">>
    [] OTHER -> <<>>

EscapeCodes ==
  {ResetCode, "ESC[31m", "ESC[32m", "ESC[33m", "ESC[34m", "ESC[90m",
   "ESC[1m", "ESC[3m", "ESC[4m", "ESC[5m"}

RECURSIVE StyleCodes(_)
StyleCodes(names) ==
  IF names = <<>> THEN <<>>
  ELSE (IF Head(names) # "" THEN StyleCode(Head(names)) ELSE <<>>)
       \o StyleCodes(Tail(names))

\* LogLineFormatter._apply_style(text, color, style)
ApplyStyle(txt, color, style) ==
  LET coloured == IF color # None /\ color[1] # ""
                  THEN ColorCode(color[1]) \o txt \o <<ResetCode>> ELSE txt
  IN  IF style # <<>> THEN StyleCodes(style) \o coloured \o <<ResetCode>> ELSE coloured

\* ================================================= the line formatter
\* s * n and ' ' * n: nothing for n <= 0
RECURSIVE Repeat(_, _)
Repeat(s, n) == IF n <= 0 THEN <<>> ELSE s \o Repeat(s, n - 1)

Ljust(s, w) == s \o Repeat(<<" ">>, w - Len(s))
Rjust(s, w) == Repeat(<<" ">>, w - Len(s)) \o s

\* Python s[:n]: a negative n counts from the end
Prefix(s, n) ==
  IF n >= 0 THEN SubSeq(s, 1, Min(n, Len(s))) ELSE SubSeq(s, 1, Max(0, Len(s) + n))

\* the decorated width of a field's content (lines 188-190)
BaseWidth(fc, content) == wcswidth(content) + Len(fc.leading_char) + Len(fc.closing_char)

\* lines 194-198: the max_width constraint of one field
Clamp(fc, width) ==
  IF width > 0 /\ fc.max_width # None /\ fc.max_width[1] # 0
  THEN Min(width, fc.max_width[1]) ELSE width

\* the slip of leaving the floor of the padding width out
CalculateWidthsNoFloor(cfg, msg, rsn, sts) ==
  LET m == Clamp(cfg.fields["message"], BaseWidth(cfg.fields["message"], msg))
      r == Clamp(cfg.fields["reason"],
                 IF rsn # <<>> THEN BaseWidth(cfg.fields["reason"], rsn) ELSE 0)
      t == Clamp(cfg.fields["status"],
                 IF sts # <<>> THEN BaseWidth(cfg.fields["status"], sts) ELSE 0)
  IN  [message |-> m, reason |-> r, status |-> t, padding |-> cfg.total_width - (m + r + t)]

\* LogLineFormatter._calculate_widths(message, reason, status)
CalculateWidths(cfg, msg, rsn, sts) ==
  LET m == Clamp(cfg.fields["message"], BaseWidth(cfg.fields["message"], msg))
      r == Clamp(cfg.fields["reason"],
                 IF rsn # <<>> THEN BaseWidth(cfg.fields["reason"], rsn) ELSE 0)
      t == Clamp(cfg.fields["status"],
                 IF sts # <<>> THEN BaseWidth(cfg.fields["status"], sts) ELSE 0)
      used_width == m + r + t
      padding_field == cfg.fields["padding"]
      min_padding == padding_field.min_width + Len(padding_field.leading_char)
                       + Len(padding_field.closing_char)
      total_padding == cfg.total_width - used_width
  IN  [message |-> m, reason |-> r, status |-> t,
       padding |-> Max(min_padding, total_padding)]

\* the alignment of one raw fragment (lines 151-156 and 165-176)
Align(field_name, raw, width) ==
  IF field_name = "message" THEN Ljust(raw, width)
  ELSE IF field_name = "status" THEN raw
  ELSE Rjust(raw, width)

\* the slip of styling a fragment before it is aligned to its width
FormatFieldStylesFirst(cfg, content, field_name, width) ==
  LET fc == cfg.fields[field_name]
      inner == width - Len(fc.leading_char) - Len(fc.closing_char)
      Styled(raw) == ApplyStyle(raw, fc.color, fc.style)
  IN  IF field_name = "padding"
      THEN << fc.leading_char \o Repeat(fc.padding_char, inner) \o fc.closing_char >>
      ELSE IF ~fc.wrap
      THEN LET truncated == IF wcswidth(content) > inner THEN Prefix(content, inner)
                            ELSE content
           IN  << Align(field_name,
                        Styled(fc.leading_char \o truncated \o fc.closing_char), width) >>
      ELSE LET wrapped_lines == WrapText(content, inner, fc.word_wrap)
               n == Len(wrapped_lines)
           IN  IF n = 0 THEN << <<>> >>
               ELSE [i \in 1..n |->
                      Align(field_name,
                            Styled((IF i = 1 THEN fc.leading_char ELSE <<>>)
                                     \o wrapped_lines[i]
                                     \o (IF i = n THEN fc.closing_char ELSE <<>>)),
                            width)]

\* LogLineFormatter._format_field(content, field_name, width)
FormatField(cfg, content, field_name, width) ==
  LET fc == cfg.fields[field_name]
      inner == width - Len(fc.leading_char) - Len(fc.closing_char)
  IN  IF field_name = "padding"
      THEN << fc.leading_char \o Repeat(fc.padding_char, inner) \o fc.closing_char >>
      ELSE IF ~fc.wrap
      THEN LET truncated == IF wcswidth(content) > inner THEN Prefix(content, inner)
                            ELSE content
           IN  << Align(field_name, fc.leading_char \o truncated \o fc.closing_char, width) >>
      ELSE LET wrapped_lines == WrapText(content, inner, fc.word_wrap)
               n == Len(wrapped_lines)
           IN  IF n = 0 THEN << <<>> >>
               ELSE [i \in 1..n |->
                      Align(field_name,
                            (IF i = 1 THEN fc.leading_char ELSE <<>>)
                              \o wrapped_lines[i]
                              \o (IF i = n THEN fc.closing_char ELSE <<>>),
                            width)]

Fragment(field_name, txt) == [field |-> field_name, text |-> txt]

\* one entry of line_parts, styled with the field's colour and style
StyledFragment(cfg, name, txt) ==
  Fragment(name, ApplyStyle(txt, cfg.fields[name].color, cfg.fields[name].style))

\* format_line, lines 117-120: the reason column of output line i
ReasonPart(cfg, reason_lines, w, i) ==
  IF reason_lines # <<>>
  THEN << StyledFragment(cfg, "reason", IF i <= Len(reason_lines) THEN reason_lines[i]
                                        ELSE Repeat(<<" ">>, w)) >>
  ELSE <<>>

\* the slip of rendering the status like a wrapped paragraph
StatusPartEveryLine(cfg, status_lines, sts, w, i) ==
  IF status_lines # <<>> /\ i <= Len(status_lines)
  THEN << StyledFragment(cfg, "status", status_lines[i]) >>
  ELSE IF sts # <<>> /\ i > 1
  THEN << Fragment("status", Repeat(<<" ">>, w)) >>
  ELSE <<>>

\* format_line, lines 122-126: the status column of output line i
StatusPart(cfg, status_lines, sts, w, i) ==
  IF status_lines # <<>> /\ i = 1
  THEN << StyledFragment(cfg, "status", status_lines[1]) >>
  ELSE IF sts # <<>> /\ i > 1
  THEN << Fragment("status", Repeat(<<" ">>, w)) >>
  ELSE <<>>

\* LogLineFormatter.format_line, lines 90-128: the fragments of every line
LineParts(cfg, msg, rsn, sts) ==
  LET widths == CalculateWidths(cfg, msg, rsn, sts)
      message_lines == FormatField(cfg, msg, "message", widths.message)
      padding == FormatField(cfg, <<>>, "padding", widths.padding)[1]
      reason_lines == IF rsn # <<>> /\ widths.reason > 0
                      THEN FormatField(cfg, rsn, "reason", widths.reason) ELSE <<>>
      status_lines == IF sts # <<>> /\ widths.status > 0
                      THEN FormatField(cfg, sts, "status", widths.status) ELSE <<>>
      max_lines == Max(Max(Len(message_lines), Len(reason_lines)),
                       Max(Len(status_lines), 1))
  IN  [i \in 1..max_lines |->
         << StyledFragment(cfg, "message",
                           IF i <= Len(message_lines) THEN message_lines[i]
                           ELSE Repeat(<<" ">>, widths.message)),
            StyledFragment(cfg, "padding", padding) >>
         \o ReasonPart(cfg, reason_lines, widths.reason, i)
         \o StatusPart(cfg, status_lines, sts, widths.status, i)]

\* ''.join(line_parts)
RECURSIVE JoinParts(_)
JoinParts(parts) ==
  IF parts = <<>> THEN <<>> ELSE Head(parts).text \o JoinParts(Tail(parts))

\* '\n'.join(formatted_lines)
RECURSIVE JoinLines(_)
JoinLines(ls) ==
  IF ls = <<>> THEN <<>>
  ELSE IF Len(ls) = 1 THEN Head(ls)
  ELSE Head(ls) \o <<"\n">> \o JoinLines(Tail(ls))

\* LogLineFormatter.format_line(message, reason, status)
FormatLine(cfg, msg, rsn, sts) ==
  LET parts == LineParts(cfg, msg, rsn, sts)
  IN  JoinLines([i \in 1..Len(parts) |-> JoinParts(parts[i])])

\* ------------------------------------------------------------- the state
VARIABLES
  wpc,            \* position inside _wrap_text: "idle", "loop", "done"
  text,           \* its argument text
  max_width,      \* its argument max_width
  word_wrap,      \* its argument word_wrap
  words,          \* the words still to be placed
  wst,            \* lines, current_line, current_width
  last_word,      \* the word the last loop iteration placed (<<>>: none)
  system_defaults,  \* DefaultsManager.system_defaults
  template_config,  \* the last get_effective_defaults call: its template_config,
  level,            \*   its level ("" for None)
  kwargs,           \*   its per-call overrides
  snap,             \*   its configuration after lines 51 (templ) and 59 (level)
  config,           \*   the LogConfig it returned
  first_args,       \* the arguments of the first get_effective_defaults call
  first_config,     \*   and the LogConfig it returned
  between,          \* a call with other arguments ran after the first call
  fpc,              \* format_line: "idle" before the call, "done" after it
  fconfig,          \* LogLineFormatter.config
  message,          \* the arguments of format_line (<<>>: None or '')
  reason,
  status,
  widths,           \* what _calculate_widths returned
  line_parts,       \* the fragments of every output line
  output,           \* the string format_line returned
  handlers,         \* self.logger.handlers
  original_handlers,  \* the handler list before the first log call
  kpc,              \* per thread: its position inside _handle_template_override
  template,         \* per thread: kwargs.get('template') ("" for None)
  handler,          \* per thread: the temporary handler of its call
  current_handlers, \* per thread: the copy of the handler list its call took
  restoring,        \* per thread: what the for loop of line 86 still has to add
  raised,           \* per thread: self.logger._log raised in its call
  calls,            \* per thread: the number of log calls it has made
  emitted           \* which handler emitted which call's record

wrapVars == <<wpc, text, max_width, word_wrap, words, wst, last_word>>

cascadeVars == <<system_defaults, template_config, level, kwargs, snap, config,
                 first_args, first_config, between>>

formatVars == <<fpc, fconfig, message, reason, status, widths, line_parts, output>>

klogVars == <<handlers, original_handlers, kpc, template, handler, current_handlers,
              restoring, raised, calls, emitted>>

vars == <<wrapVars, cascadeVars, formatVars, klogVars>>

RECURSIVE Texts(_)
Texts(n) ==
  IF n = 0 THEN {<<>>}
  ELSE LET shorter == Texts(n - 1)
       IN  shorter \cup {Append(t, ch) : t \in {u \in shorter : Len(u) = n - 1}, ch \in Chars}

WrapInit ==
  /\ wpc = "idle"
  /\ text = <<>>
  /\ max_width = 0
  /\ word_wrap = TRUE
  /\ words = <<>>
  /\ wst = WrapState(<<>>, <<>>, 0)
  /\ last_word = <<>>

\* _wrap_text is entered (lines 41-52): the early return and the character
\* branch return at once, the word branch enters the loop.  The function keeps
\* nothing between calls, so one call per behaviour covers every call.
WrapCall ==
  /\ wpc = "idle"
  /\ \E t \in Texts(MaxTextLen), mw \in 0..MaxWidth, ww \in BOOLEAN :
       /\ text' = t
       /\ max_width' = mw
       /\ word_wrap' = ww
       /\ last_word' = <<>>
       /\ IF t = <<>> \/ mw <= 0
          THEN /\ wpc' = "done"
               /\ words' = <<>>
               /\ wst' = WrapState(<<>>, <<>>, 0)
          ELSE IF ~ww
          THEN /\ wpc' = "done"
               /\ words' = <<>>
               /\ wst' = WrapState(CharChunks(t, mw), <<>>, 0)
          ELSE /\ wpc' = "loop"
               /\ words' = Split(t)
               /\ wst' = WrapState(<<>>, <<>>, 0)

\* one loop iteration (lines 54-81)
WrapWord ==
  /\ wpc = "loop"
  /\ words # <<>>
  /\ wst' = WordStep(wst, Head(words), max_width)
  /\ last_word' = Head(words)
  /\ words' = Tail(words)
  /\ UNCHANGED <<wpc, text, max_width, word_wrap>>

\* the loop is over (lines 83-86)
WrapReturn ==
  /\ wpc = "loop"
  /\ words = <<>>
  /\ wst' = WrapState(FinishWrap(wst), <<>>, 0)
  /\ wpc' = "done"
  /\ last_word' = <<>>
  /\ UNCHANGED <<text, max_width, word_wrap, words>>

\* ---- the override blobs handed to get_effective_defaults
TemplateConfigs ==
  { EmptyDict,
    "total_width" :> 10,
    "fields" :> (("status" :> [color |-> Some("blue"), max_width |-> Some(3)])
                 @@ ("message" :> [wrap |-> FALSE])),
    ("total_width" :> 9)
      @@ ("fields" :> ("reason" :> [leading_char |-> <<"[">>, closing_char |-> <<"]">>])),
    "fields" :> (("extra" :> [color |-> Some("red")])
                 @@ ("status" :> [color |-> Some("red")])),
    "fields" :> (("padding" :> [padding_char |-> <<"-">>, min_width |-> 2])
                 @@ ("message" :> [color |-> Some("red"), wrap |-> TRUE])),
    ("total_width" :> (0 - 2))
      @@ ("fields" :> (("status" :> [max_width |-> Some(0 - 1)])
                       @@ ("padding" :> [min_width |-> 0 - 1]))) }

Kwargs ==
  { EmptyDict,
    ("total_width" :> 11) @@ ("fields" :> ("status" :> [color |-> Some("grey")])),
    "fields" :> (("message" :> [wrap |-> TRUE, max_width |-> Some(3)])
                 @@ ("status" :> [style |-> <<>>])) }

\* None, two levels with a style, one without
Levels == {"", "INFO", "ERROR", "TRACE"}

CascadeInit ==
  /\ system_defaults \in SystemDefaultsSet
  /\ template_config = EmptyDict
  /\ level = ""
  /\ kwargs = EmptyDict
  /\ snap = [templ |-> system_defaults, level |-> system_defaults]
  /\ config = system_defaults
  /\ first_args = <<>>
  /\ first_config = system_defaults
  /\ between = FALSE

\* one call of get_effective_defaults on the manager's system_defaults
ResolveCall ==
  \E tc \in TemplateConfigs, lvl \in Levels, kw \in Kwargs :
    LET h0 == <<system_defaults>>
        c2 == CopyAndTemplate(h0, 1, tc)
        h3 == ApplyLevelStyles(c2.heap, c2.ref, lvl)
        r  == GetEffectiveDefaults(h0, 1, tc, lvl, kw)
    IN  /\ template_config' = tc
        /\ level' = lvl
        /\ kwargs' = kw
        /\ system_defaults' = r.heap[1]
        /\ config' = r.heap[r.ref]
        /\ snap' = [templ |-> c2.heap[c2.ref], level |-> h3[c2.ref]]
        /\ IF first_args = <<>>
           THEN first_args' = <<tc, lvl, kw>> /\ first_config' = r.heap[r.ref]
           ELSE UNCHANGED <<first_args, first_config>>
        /\ between' = (first_args # <<>> /\ (between \/ <<tc, lvl, kw>> # first_args))
        /\ UNCHANGED <<wrapVars, formatVars, klogVars>>

\* ---- the template configs that shape the layout of a formatter
LayoutConfigs ==
  { EmptyDict,
    "fields" :> (("reason" :> [wrap |-> TRUE])
                 @@ ("status" :> [wrap |-> TRUE, color |-> Some("red")])),
    "fields" :> (("message" :> [wrap |-> FALSE]) @@ ("padding" :> [min_width |-> 2])),
    ("total_width" :> 8)
      @@ ("fields" :> ("message" :> [leading_char |-> <<"[">>, closing_char |-> <<"]">>,
                                     color |-> Some("red")])),
    "fields" :> (("message" :> [max_width |-> Some(2), word_wrap |-> FALSE])
                 @@ ("status" :> [max_width |-> None])),
    "fields" :> ("reason" :> [max_width |-> Some(1), style |-> <<"bold", "blink">>]) }

\* CustomFormatter.format, lines 253-258 and 266: the configuration of the
\* LogLineFormatter built for one record
EffectiveConfig(sd, tc, lvl) ==
  LET r == GetEffectiveDefaults(<<sd>>, 1, tc, lvl, EmptyDict)
  IN  r.heap[r.ref]

ReasonTexts == { <<>>, <<"a">>, <<"W", "a">>, <<"a", " ", "a">>, <<"c">> }

StatusTexts == { <<>>, <<"a">>, <<"W">>, <<"a", "a", "a">>, <<"z">>, <<"a", "c">> }

FormatInit ==
  /\ fpc = "idle"
  /\ fconfig = system_defaults
  /\ message = <<>>
  /\ reason = <<>>
  /\ status = <<>>
  /\ widths = [message |-> 0, reason |-> 0, status |-> 0, padding |-> 0]
  /\ line_parts = <<>>
  /\ output = <<>>

\* LogLineFormatter(config).format_line(message, reason, status).  The
\* formatter keeps nothing between calls, so one call per behaviour covers
\* every call.
FormatLineCall ==
  /\ fpc = "idle"
  /\ \E tc \in LayoutConfigs, msg \in Texts(MaxMsgLen),
        rsn \in ReasonTexts, sts \in StatusTexts :
       LET cfg == EffectiveConfig(system_defaults, tc, "INFO")
       IN  /\ fconfig' = cfg
           /\ message' = msg
           /\ reason' = rsn
           /\ status' = sts
           /\ widths' = CalculateWidths(cfg, msg, rsn, sts)
           /\ line_parts' = LineParts(cfg, msg, rsn, sts)
           /\ output' = FormatLine(cfg, msg, rsn, sts)
  /\ fpc' = "done"
  /\ UNCHANGED <<wrapVars, cascadeVars, klogVars>>

\* =========================================================== klog.py
\* the threads that call the log methods of one KLog
Threads == {1, 2}

\* kwargs.get('template'): absent, the template of the KLog, two other ones
Templates == {"", "default", "t1", "t2"}

\* a logging.StreamHandler with a CustomFormatter for one template; owner 0
\* is KLog.__init__, another owner is the thread whose log call made it
Handler(owner, n, tmpl) == [owner |-> owner, n |-> n, template |-> tmpl]

\* Logger.addHandler(hdlr): a handler the list already has is not added again
AddHandler(hs, h) ==
  IF \E i \in 1..Len(hs) : hs[i] = h THEN hs ELSE Append(hs, h)

\* Logger.callHandlers(record): every handler of the logger emits the record
Emit(t, hs) ==
  { [thread |-> t, call |-> calls[t], template |-> template[t], via |-> hs[i]] :
      i \in 1..Len(hs) }

\* KLog.__init__, lines 17-36: self.template is "default", one handler added
KLogInit ==
  /\ handlers = << Handler(0, 0, "default") >>
  /\ original_handlers = handlers
  /\ kpc = [t \in Threads |-> "idle"]
  /\ template = [t \in Threads |-> ""]
  /\ handler = [t \in Threads |-> Handler(0, 0, "default")]
  /\ current_handlers = [t \in Threads |-> <<>>]
  /\ restoring = [t \in Threads |-> <<>>]
  /\ raised = [t \in Threads |-> FALSE]
  /\ calls = [t \in Threads |-> 0]
  /\ emitted = {}

NoCallYet == \A t \in Threads : calls[t] = 0

AllIdle == \A t \in Threads : kpc[t] = "idle"

\* a second KLog of the same name is built before any log call: getLogger
\* returns the same logger and line 36 adds one more handler to it
KLogNew ==
  /\ NoCallYet
  /\ Len(handlers) = 1
  /\ handlers' = AddHandler(handlers, Handler(0, 1, "default"))
  /\ original_handlers' = handlers'
  /\ UNCHANGED <<kpc, template, handler, current_handlers, restoring, raised, calls,
                 emitted>>

\* debug/info/warning/error/critical enter _handle_template_override; lines
\* 62-71: with a template that differs the temporary handler is built
LogCall(t) ==
  /\ kpc[t] = "idle"
  /\ calls[t] < MaxCalls
  /\ \E tmpl \in Templates :
       /\ template' = [template EXCEPT ![t] = tmpl]
       /\ IF tmpl # "" /\ tmpl # "default"
          THEN /\ handler' = [handler EXCEPT ![t] = Handler(t, calls[t] + 1, tmpl)]
               /\ kpc' = [kpc EXCEPT ![t] = "copy"]
          ELSE /\ kpc' = [kpc EXCEPT ![t] = "plain"]
               /\ UNCHANGED handler
  /\ calls' = [calls EXCEPT ![t] = @ + 1]
  /\ raised' = [raised EXCEPT ![t] = FALSE]
  /\ UNCHANGED <<handlers, original_handlers, current_handlers, restoring, emitted>>

\* line 74: current_handlers = self.logger.handlers.copy()
CopyHandlers(t) ==
  /\ kpc[t] = "copy"
  /\ current_handlers' = [current_handlers EXCEPT ![t] = handlers]
  /\ kpc' = [kpc EXCEPT ![t] = "clear"]
  /\ UNCHANGED <<handlers, original_handlers, template, handler, restoring, raised,
                 calls, emitted>>

\* line 78: self.logger.handlers.clear()
ClearHandlers(t) ==
  /\ kpc[t] = "clear"
  /\ handlers' = <<>>
  /\ kpc' = [kpc EXCEPT ![t] = "add"]
  /\ UNCHANGED <<original_handlers, template, handler, current_handlers, restoring,
                 raised, calls, emitted>>

\* line 79: self.logger.addHandler(handler)
AddTemporary(t) ==
  /\ kpc[t] = "add"
  /\ handlers' = AddHandler(handlers, handler[t])
  /\ kpc' = [kpc EXCEPT ![t] = "log"]
  /\ UNCHANGED <<original_handlers, template, handler, current_handlers, restoring,
                 raised, calls, emitted>>

\* line 82: self.logger._log(...) emits through the handlers of the logger
LogOverride(t) ==
  /\ kpc[t] = "log"
  /\ emitted' = emitted \cup Emit(t, handlers)
  /\ kpc' = [kpc EXCEPT ![t] = "finally"]
  /\ UNCHANGED <<handlers, original_handlers, template, handler, current_handlers,
                 restoring, raised, calls>>

\* line 82 raises (a key of kwargs that a LogRecord may not carry): nothing
\* is emitted and the finally block runs
LogOverrideRaises(t) ==
  /\ kpc[t] = "log"
  /\ raised' = [raised EXCEPT ![t] = TRUE]
  /\ kpc' = [kpc EXCEPT ![t] = "finally"]
  /\ UNCHANGED <<handlers, original_handlers, template, handler, current_handlers,
                 restoring, calls, emitted>>

\* the slip of restoring on top of the temporary handler
FinallyKeeps(t) ==
  /\ kpc[t] = "finally"
  /\ restoring' = [restoring EXCEPT ![t] = current_handlers[t]]
  /\ kpc' = [kpc EXCEPT ![t] = "restore"]
  /\ UNCHANGED <<handlers, original_handlers, template, handler, current_handlers,
                 raised, calls, emitted>>

\* line 85: self.logger.handlers.clear(), the for loop of line 86 starts
FinallyClear(t) ==
  /\ kpc[t] = "finally"
  /\ handlers' = <<>>
  /\ restoring' = [restoring EXCEPT ![t] = current_handlers[t]]
  /\ kpc' = [kpc EXCEPT ![t] = "restore"]
  /\ UNCHANGED <<original_handlers, template, handler, current_handlers, raised,
                 calls, emitted>>

\* lines 86-87: one self.logger.addHandler(h) of the for loop
RestoreHandler(t) ==
  /\ kpc[t] = "restore"
  /\ restoring[t] # <<>>
  /\ handlers' = AddHandler(handlers, Head(restoring[t]))
  /\ restoring' = [restoring EXCEPT ![t] = Tail(@)]
  /\ UNCHANGED <<original_handlers, kpc, template, handler, current_handlers, raised,
                 calls, emitted>>

\* the for loop is over: the call returns, or the exception goes on
ReturnOverride(t) ==
  /\ kpc[t] = "restore"
  /\ restoring[t] = <<>>
  /\ kpc' = [kpc EXCEPT ![t] = "idle"]
  /\ UNCHANGED <<handlers, original_handlers, template, handler, current_handlers,
                 restoring, raised, calls, emitted>>

\* line 90: self.logger._log(...) with the handlers as they are
LogPlain(t) ==
  /\ kpc[t] = "plain"
  /\ emitted' = emitted \cup Emit(t, handlers)
  /\ kpc' = [kpc EXCEPT ![t] = "idle"]
  /\ UNCHANGED <<handlers, original_handlers, template, handler, current_handlers,
                 restoring, raised, calls>>

\* line 90 raises
LogPlainRaises(t) ==
  /\ kpc[t] = "plain"
  /\ raised' = [raised EXCEPT ![t] = TRUE]
  /\ kpc' = [kpc EXCEPT ![t] = "idle"]
  /\ UNCHANGED <<handlers, original_handlers, template, handler, current_handlers,
                 restoring, calls, emitted>>

\* the steps of a call that is under way
CallStep(t) ==
  \/ CopyHandlers(t) \/ ClearHandlers(t) \/ AddTemporary(t)
  \/ LogOverride(t) \/ LogOverrideRaises(t)
  \/ FinallyClear(t) \/ RestoreHandler(t) \/ ReturnOverride(t)
  \/ LogPlain(t) \/ LogPlainRaises(t)

Init == WrapInit /\ CascadeInit /\ FormatInit /\ KLogInit

WrapNext ==
  (WrapCall \/ WrapWord \/ WrapReturn) /\ UNCHANGED <<cascadeVars, formatVars, klogVars>>

SpecWrap == Init /\ [][WrapNext]_vars

CascadeNext == ResolveCall

SpecCascade == Init /\ [][CascadeNext]_vars

FormatNext == FormatLineCall

SpecFormat == Init /\ [][FormatNext]_vars

\* log calls one after the other: a call starts when no call is under way
KLogNext ==
  (\/ KLogNew
   \/ \E t \in Threads : (AllIdle /\ LogCall(t)) \/ CallStep(t))
  /\ UNCHANGED <<wrapVars, cascadeVars, formatVars>>

SpecKLog == Init /\ [][KLogNext]_vars

\* log calls of two threads, their steps interleaved
KLogThreadsNext ==
  (\/ KLogNew
   \/ \E t \in Threads : (calls[t] < MaxThreadCalls /\ LogCall(t)) \/ CallStep(t))
  /\ UNCHANGED <<wrapVars, cascadeVars, formatVars>>

SpecKLogThreads == Init /\ [][KLogThreadsNext]_vars

\* ------------------------------------------------ properties of the layout
IsEscape(tok) == tok \in EscapeCodes

\* the display width of a rendered string, style escape sequences ignored
DisplayWidth(s) == wcswidth(SelectSeq(s, LAMBDA tok : ~IsEscape(tok)))

\* the fragment of field name on line i, <<>> when the line has none
FragmentsOf(i, name) ==
  SelectSeq(line_parts[i], LAMBDA part : part.field = name)

AllFieldsGiven == fpc = "done" /\ message # <<>> /\ reason # <<>> /\ status # <<>>

\* C1: with message, reason and status given, on every output line each of
\* the four fragments has the display width _calculate_widths gave its field,
\* so all lines have the same total display width.
C1_LinesAligned ==
  AllFieldsGiven =>
    /\ \A i \in 1..Len(line_parts) : \A name \in FieldNames :
         /\ Len(FragmentsOf(i, name)) = 1
         /\ DisplayWidth(FragmentsOf(i, name)[1].text) = widths[name]
    /\ \A i, j \in 1..Len(line_parts) :
         DisplayWidth(JoinParts(line_parts[i])) = DisplayWidth(JoinParts(line_parts[j]))

\* the text of a fragment, style escape sequences removed
Plain(s) == SelectSeq(s, LAMBDA tok : ~IsEscape(tok))

\* the number of lines a field's content wraps to (1 when it is not wrapped)
WrappedCount(name, content) ==
  LET fc == fconfig.fields[name]
      inner == widths[name] - Len(fc.leading_char) - Len(fc.closing_char)
  IN  IF ~fc.wrap THEN 1 ELSE Max(1, Len(WrapText(content, inner, fc.word_wrap)))

ColumnShown(name, content) == content # <<>> /\ widths[name] > 0

ContentOf(name) ==
  IF name = "message" THEN message ELSE IF name = "reason" THEN reason ELSE status

OnlyMessageAndPadding(i) ==
  /\ Len(line_parts[i]) = 2
  /\ line_parts[i][1].field = "message"
  /\ line_parts[i][2].field = "padding"

\* C12: a reason (status) column is there on every line exactly when the
\* reason (status) is not empty: with empty content its width is 0 and no line
\* has a fragment of it, with content every line has one, and with both
\* columns absent every line is the message fragment then the padding fragment.
C12_PresenceByNonEmptiness ==
  fpc = "done" =>
    /\ \A name \in {"reason", "status"} : \A i \in 1..Len(line_parts) :
         IF ContentOf(name) = <<>>
         THEN widths[name] = 0 /\ FragmentsOf(i, name) = <<>>
         ELSE Len(FragmentsOf(i, name)) = 1
    /\ (reason = <<>> /\ status = <<>>) =>
         \A i \in 1..Len(line_parts) : OnlyMessageAndPadding(i)

\* format_line hands the field to _format_field
Formatted(name) == name = "message" \/ ColumnShown(name, ContentOf(name))

\* C13: a field with wrap = False is formatted to exactly one line; content
\* whose display width is at most the inner width is kept whole, longer content
\* is cut to a prefix of at most the inner width, and the fragment with its
\* leading and closing characters is never wider than the field's width.
C13_UnwrappedFieldFits ==
  fpc = "done" =>
    \A name \in {"message", "reason", "status"} :
      (Formatted(name) /\ ~fconfig.fields[name].wrap) =>
        LET fc == fconfig.fields[name]
            content == ContentOf(name)
            inner == widths[name] - Len(fc.leading_char) - Len(fc.closing_char)
            lines == FormatField(fconfig, content, name, widths[name])
            Decorated(kept) ==
              Align(name, fc.leading_char \o kept \o fc.closing_char, widths[name])
        IN  /\ Len(lines) = 1
            /\ wcswidth(content) <= inner => lines[1] = Decorated(content)
            /\ wcswidth(content) > inner =>
                 \E n \in 0..Len(content) :
                   /\ wcswidth(SubSeq(content, 1, n)) <= inner
                   /\ lines[1] = Decorated(SubSeq(content, 1, n))
            /\ Plain(FragmentsOf(1, name)[1].text) = lines[1]
            /\ DisplayWidth(lines[1]) <= widths[name]

\* the configuration with every field's color and style unset
Unstyled(cfg) ==
  [cfg EXCEPT !.fields =
     [name \in DOMAIN cfg.fields |->
        [cfg.fields[name] EXCEPT !.color = None, !.style = <<>>]]]

\* C14: the output of format_line with its style escape sequences removed is
\* the output format_line gives when every field's color and style are unset,
\* and the widths are the same: same wrap points, same number of lines.
C14_StylingKeepsLayout ==
  fpc = "done" =>
    /\ Plain(output) = FormatLine(Unstyled(fconfig), message, reason, status)
    /\ widths = CalculateWidths(Unstyled(fconfig), message, reason, status)
    /\ Len(line_parts) = Len(LineParts(Unstyled(fconfig), message, reason, status))

\* a styled render of several lines with a padded message and a reason
C14_Witness ==
  /\ fpc = "done"
  /\ Len(line_parts) >= 2
  /\ ColumnShown("reason", reason)
  /\ \E name \in {"message", "reason"} :
       /\ fconfig.fields[name].color # None
       /\ Len(Plain(FragmentsOf(1, name)[1].text)) > Len(ContentOf(name))
  /\ Plain(output) # output

PaddingField == fconfig.fields["padding"]

Slack == fconfig.total_width - (widths.message + widths.reason + widths.status)

WidthSum == widths.message + widths.padding + widths.reason + widths.status

\* C6 as claimed: the floor of the padding width is the configured min_width.
C6_PaddingFloorIsMinWidth ==
  fpc = "done" =>
    /\ widths.padding = Max(PaddingField.min_width, Slack)
    /\ Slack >= PaddingField.min_width => WidthSum = fconfig.total_width

\* the floor _calculate_widths uses: min_width plus the padding decoration
DecoratedMinPadding ==
  PaddingField.min_width + Len(PaddingField.leading_char) + Len(PaddingField.closing_char)

\* C6, amended: the padding width is the larger of the decorated minimum
\* (min_width plus the leading and closing characters of the padding field)
\* and the slack; so it is never below the configured minimum, the four
\* widths sum to total_width when the slack reaches the decorated minimum
\* and to more than total_width otherwise.
C6_PaddingFloorDecorated ==
  fpc = "done" =>
    /\ widths.padding = Max(DecoratedMinPadding, Slack)
    /\ widths.padding >= PaddingField.min_width
    /\ Slack >= DecoratedMinPadding => WidthSum = fconfig.total_width
    /\ Slack < DecoratedMinPadding => WidthSum > fconfig.total_width

C6_Witness ==
  /\ AllFieldsGiven
  /\ Slack < DecoratedMinPadding
  /\ Slack >= PaddingField.min_width
  /\ widths.padding = DecoratedMinPadding

SetsAttr(blob, f, a) ==
  /\ "fields" \in DOMAIN blob
  /\ f \in DOMAIN blob.fields
  /\ a \in DOMAIN blob.fields[f]

LevelSets(cfg, lvl, f, a) ==
  /\ lvl # ""
  /\ lvl \in DOMAIN cfg.level_styles
  /\ f \in DOMAIN cfg.level_styles[lvl]
  /\ a \in DOMAIN cfg.level_styles[lvl][f]

LastLayerValue(f, a) ==
  IF SetsAttr(kwargs, f, a) THEN kwargs.fields[f][a]
  ELSE IF LevelSets(system_defaults, level, f, a)
       THEN system_defaults.level_styles[level][f][a]
  ELSE IF SetsAttr(template_config, f, a) THEN template_config.fields[f][a]
  ELSE system_defaults.fields[f][a]

LastLayerTotalWidth ==
  IF "total_width" \in DOMAIN kwargs THEN kwargs.total_width
  ELSE IF "total_width" \in DOMAIN template_config THEN template_config.total_width
  ELSE system_defaults.total_width

\* C8: every attribute of every field of the effective configuration, and
\* total_width, has the value of the last layer that sets it, in the order
\* system defaults, template config, level style, per-call overrides.
C8_LaterLayerWins ==
  /\ config.total_width = LastLayerTotalWidth
  /\ \A f \in FieldNames : \A a \in DOMAIN config.fields[f] :
       config.fields[f][a] = LastLayerValue(f, a)

C8_Witness ==
  /\ SetsAttr(template_config, "status", "color")
  /\ LevelSets(system_defaults, level, "status", "color")
  /\ ~SetsAttr(kwargs, "status", "color")
  /\ SetsAttr(kwargs, "status", "style")
  /\ template_config.fields["status"]["color"]
       # system_defaults.level_styles[level]["status"]["color"]
  /\ config.fields["status"]["color"] = system_defaults.level_styles[level]["status"]["color"]
  /\ config.fields["status"]["style"] = kwargs.fields["status"]["style"]

\* what _merge_defaults(base, override) may change and what it must keep
MergeFrame(base, override, result) ==
  /\ result.level_styles = base.level_styles
  /\ result.total_width = IF "total_width" \in DOMAIN override
                          THEN override.total_width ELSE base.total_width
  /\ DOMAIN result.fields = DOMAIN base.fields
  /\ \A f \in DOMAIN base.fields : \A a \in DOMAIN base.fields[f] :
       result.fields[f][a] = IF SetsAttr(override, f, a)
                             THEN override.fields[f][a] ELSE base.fields[f][a]

\* C9: merging an override blob changes total_width only when the blob gives
\* one and, of each field it names, only the attributes it gives; every other
\* attribute, every other field and level_styles keep the values of the base.
C9_MergeFrame ==
  /\ DOMAIN template_config # {} => MergeFrame(system_defaults, template_config, snap.templ)
  /\ DOMAIN kwargs # {} => MergeFrame(snap.level, kwargs, config)

C9_Witness ==
  /\ SetsAttr(template_config, "status", "max_width")
  /\ "total_width" \notin DOMAIN template_config
  /\ snap.templ.fields["status"]["max_width"] # system_defaults.fields["status"]["max_width"]
  /\ snap.templ.fields["status"]["wrap"] = FALSE
  /\ snap.templ.fields["reason"] = system_defaults.fields["reason"]
  /\ "total_width" \in DOMAIN kwargs
  /\ config.total_width # snap.level.total_width

\* C10 as claimed: the level style step changes nothing but color and style.
C10_LevelStepOnlyColorStyle ==
  /\ snap.level.total_width = snap.templ.total_width
  /\ \A f \in FieldNames : \A a \in DOMAIN snap.templ.fields[f] \ {"color", "style"} :
       /\ a \in DOMAIN snap.level.fields[f]
       /\ snap.level.fields[f][a] = snap.templ.fields[f][a]

\* C10, amended: the level style step changes only the attributes the level
\* style names, on the fields it targets; every other attribute of every
\* field, total_width and level_styles are the same before and after it.
C10_LevelStepFrame ==
  /\ snap.level.total_width = snap.templ.total_width
  /\ snap.level.level_styles = snap.templ.level_styles
  /\ DOMAIN snap.level.fields = DOMAIN snap.templ.fields
  /\ \A f \in FieldNames : \A a \in DOMAIN snap.templ.fields[f] :
       snap.level.fields[f][a] =
         IF LevelSets(snap.templ, level, f, a)
         THEN snap.templ.level_styles[level][f][a] ELSE snap.templ.fields[f][a]

C10_Witness ==
  /\ LevelSets(snap.templ, level, "status", "color")
  /\ SetsAttr(template_config, "status", "max_width")
  /\ snap.level.fields["status"]["color"] # snap.templ.fields["status"]["color"]
  /\ snap.level.fields["status"]["max_width"] = template_config.fields["status"]["max_width"]

\* ------------------------------------------------- properties of _wrap_text
WithoutWhitespace(s) == SelectSeq(s, LAMBDA ch : ch \notin Whitespace)

RECURSIVE WordsOfLines(_)
WordsOfLines(ls) ==
  IF ls = <<>> THEN <<>> ELSE Split(Head(ls)) \o WordsOfLines(Tail(ls))

WordModeDone == wpc = "done" /\ word_wrap /\ max_width > 0

CharModeDone == wpc = "done" /\ ~word_wrap /\ max_width > 0

\* C2: every line returned by word-mode wrapping has display width at most
\* max_width, the chunks of an over-long word included.
C2_WordWrapLinesFit ==
  WordModeDone =>
    \A k \in 1..Len(wst.lines) : wcswidth(wst.lines[k]) <= max_width

\* C3: every line returned by character-mode wrapping has display width at
\* most max_width, every line but the last exactly max_width, and the lines
\* concatenated give text back.
C3_CharWrapExact ==
  CharModeDone =>
    /\ \A k \in 1..Len(wst.lines) : wcswidth(wst.lines[k]) <= max_width
    /\ \A k \in 1..(Len(wst.lines) - 1) : wcswidth(wst.lines[k]) = max_width
    /\ Concat(wst.lines) = text

\* C4: word-mode wrapping drops no word and keeps the order: the lines
\* concatenated and stripped of whitespace are text stripped of whitespace, and
\* when no word had to be sliced the words of the lines are the words of text.
C4_WordsPreserved ==
  WordModeDone =>
    /\ WithoutWhitespace(Concat(wst.lines)) = WithoutWhitespace(text)
    /\ (\A k \in 1..Len(Split(text)) : wcswidth(Split(text)[k]) <= max_width)
         => WordsOfLines(wst.lines) = Split(text)

C4_Witness ==
  /\ WordModeDone
  /\ Len(Split(text)) >= 2
  /\ Len(wst.lines) >= 3
  /\ \E k \in 1..Len(Split(text)) : Len(Split(text)[k]) > max_width

\* C5: a word wider than max_width closes the current line, its chunks of
\* exactly max_width characters become lines of their own, its last fragment
\* starts the next line, a following word that fits is appended to that
\* fragment, and no empty line is emitted.
LongWordNext ==
  wpc = "loop" /\ words # <<>> /\ wcswidth(Head(words)) > max_width

FullChunks(word, mw) ==
  [k \in 1..((Len(word) - 1) \div mw) |-> SubSeq(word, (k - 1) * mw + 1, k * mw)]

LastFragment(word, mw) ==
  SubSeq(word, ((Len(word) - 1) \div mw) * mw + 1, Len(word))

FollowerFits ==
  /\ wpc = "loop" /\ words # <<>>
  /\ last_word # <<>> /\ wcswidth(last_word) > max_width
  /\ wcswidth(wst.current_line) + 1 + wcswidth(Head(words)) <= max_width

C5_LongWordSliced ==
  [][ /\ LongWordNext =>
          /\ wst'.lines = wst.lines
                \o (IF wst.current_line # <<>> THEN <<wst.current_line>> ELSE <<>>)
                \o FullChunks(Head(words), max_width)
          /\ wst'.current_line = LastFragment(Head(words), max_width)
          /\ wst'.current_line # <<>>
          /\ \A k \in 1..Len(FullChunks(Head(words), max_width)) :
                Len(FullChunks(Head(words), max_width)[k]) = max_width
      /\ FollowerFits =>
          /\ wst'.lines = wst.lines
          /\ wst'.current_line = wst.current_line \o <<" ">> \o Head(words)
      /\ \A k \in 1..Len(wst'.lines) : wst'.lines[k] # <<>>
    ]_vars

C5_Witness ==
  /\ FollowerFits
  /\ Len(last_word) > max_width
  /\ \A k \in 1..Len(last_word) : last_word[k] = "a"
  /\ Head(words) = <<"a">>
  /\ Len(wst.lines) >= 1

\* ------------------------------------------- offending override entries
\* a dict of per-field dicts without the entries of unknown field names
KnownFields(fd) == [f \in DOMAIN fd \cap FieldNames |-> fd[f]]

\* an override without its entries of unknown field names
WithoutUnknown(blob) ==
  IF "fields" \in DOMAIN blob THEN [blob EXCEPT !.fields = KnownFields(@)] ELSE blob

\* a LogConfig whose level styles name no unknown field
WithoutUnknownLevels(cfg) ==
  [cfg EXCEPT !.level_styles = [lv \in DOMAIN @ |-> KnownFields(@[lv])]]

NamesUnknownField(blob) ==
  "fields" \in DOMAIN blob /\ DOMAIN blob.fields \ FieldNames # {}

\* C15: an override entry for a field name outside message, padding, reason,
\* status is ignored: the effective configuration has exactly the four fields,
\* their values and total_width are those of the same call without such
\* entries, and the render of the configuration returns a string.
C15_UnknownFieldIgnored ==
  LET r == GetEffectiveDefaults(<<WithoutUnknownLevels(system_defaults)>>, 1,
                                WithoutUnknown(template_config), level,
                                WithoutUnknown(kwargs))
  IN  /\ DOMAIN config.fields = FieldNames
      /\ config.fields = r.heap[r.ref].fields
      /\ config.total_width = r.heap[r.ref].total_width
      /\ Len(FormatLine(config, <<"a">>, <<"a">>, <<"a">>)) > 0

\* a template config with an entry for "extra" next to one for status took effect
C15_Witness ==
  /\ first_args # <<>>
  /\ NamesUnknownField(template_config)
  /\ "status" \in DOMAIN template_config.fields
  /\ config.fields["status"].color = Some("red")
  /\ config.fields["status"].color # system_defaults.fields["status"].color

\* the numeric width attributes of a configuration are not negative
WidthsNonNegative(cfg) ==
  /\ cfg.total_width >= 0
  /\ \A f \in DOMAIN cfg.fields :
       /\ cfg.fields[f].min_width >= 0
       /\ cfg.fields[f].max_width # None => cfg.fields[f].max_width[1] >= 0

\* C16: an override entry that sets min_width, max_width or total_width to a
\* negative value is ignored: with non-negative system defaults every width
\* attribute of the effective configuration is non-negative, and the render of
\* the configuration returns a string.
C16_NegativeWidthIgnored ==
  WidthsNonNegative(system_defaults) =>
    /\ WidthsNonNegative(config)
    /\ Len(FormatLine(config, <<"a">>, <<"a">>, <<"a">>)) > 0

\* --------------------------------------------- properties of the handlers
\* C17: after any sequence of log calls, with or without a template override
\* and also when the logging raises, the handler list of the logger is the
\* list it had before the sequence; and while a call with a differing
\* template emits, its temporary handler is the only handler of the logger.
C17_HandlersRestored ==
  /\ AllIdle => handlers = original_handlers
  /\ \A t \in Threads : kpc[t] = "log" => handlers = << handler[t] >>

\* after a call with an override that raised, on a logger with two handlers
C17_Witness ==
  /\ AllIdle
  /\ Len(original_handlers) = 2
  /\ \E t \in Threads :
       /\ raised[t]
       /\ template[t] \notin {"", "default"}
       /\ current_handlers[t] = original_handlers
  /\ \E e \in emitted : e.via \notin {original_handlers[1], original_handlers[2]}
  /\ handlers = original_handlers

\* C18: when the steps of two threads' log calls with template overrides
\* interleave, then once both calls have returned the handler list is the
\* original one, and each record was emitted through a handler for the
\* template of its own call only.
C18_ThreadsKeepHandlers ==
  AllIdle =>
    /\ handlers = original_handlers
    /\ \A e \in emitted :
         e.template \notin {"", "default"} =>
           e.via = Handler(e.thread, e.call, e.template)

====
